---- MODULE Spec2Model ----
(***************************************************************************)
(* Roadmap editor (App.tsx, JsonEditor.tsx): the Document, its undo        *)
(* history, drag-to-reorder, the JSON source editor and the AI draft call, *)
(* as a state machine over JavaScript values.                              *)
(***************************************************************************)
EXTENDS Integers, Sequences, FiniteSets, TLC

(***************************************************************************)
(* JavaScript values.  Every value is a record [t, v]: t is the type tag,  *)
(* v the payload (a string for primitives, a sequence of values for an     *)
(* array, a sequence of members [k, val] in insertion order for an object).*)
(***************************************************************************)
JUndefined == [t |-> "undefined", v |-> ""]
JNull == [t |-> "null", v |-> ""]
JStr(s) == [t |-> "string", v |-> s]
JNum(s) == [t |-> "number", v |-> s]
JArr(elems) == [t |-> "array", v |-> elems]
JObj(members) == [t |-> "object", v |-> members]
Member(key, val) == [k |-> key, val |-> val]

IsObj(x) == x.t = "object"
IsArr(x) == x.t = "array"
IsNullish(x) == x.t \in {"undefined", "null"}

HasKey(o, key) == IsObj(o) /\ \E i \in 1..Len(o.v) : o.v[i].k = key
KeyPos(o, key) == CHOOSE i \in 1..Len(o.v) : o.v[i].k = key

\* o.key : a property read.  (On null and undefined the read throws; the
\* callers below check IsNullish first.)
Get(o, key) == IF HasKey(o, key) THEN o.v[KeyPos(o, key)].val ELSE JUndefined

\* { ...o, key: val } for an object o: an existing key keeps its position.
WithKey(o, key, val) ==
  IF HasKey(o, key)
  THEN JObj([o.v EXCEPT ![KeyPos(o, key)] = Member(key, val)])
  ELSE JObj(Append(o.v, Member(key, val)))

\* The own enumerable members a spread copies: those of an object; a
\* primitive, null or undefined contribute none.
SpreadMembers(x) == IF IsObj(x) THEN x.v ELSE <<>>

RECURSIVE AssignAll(_, _, _)
AssignAll(o, members, i) ==
  IF i > Len(members) THEN o
  ELSE AssignAll(WithKey(o, members[i].k, members[i].val), members, i + 1)

\* { ...a, ...b }
Spread2(a, b) == AssignAll(JObj(SpreadMembers(a)), SpreadMembers(b), 1)

(***************************************************************************)
(* JSON text, as its sequence of tokens (white space carries no meaning).  *)
(***************************************************************************)
P(c) == [k |-> "punct", v |-> c]
TStr(s) == [k |-> "string", v |-> s]
TNum(s) == [k |-> "number", v |-> s]
TLit(s) == [k |-> "literal", v |-> s]
TWord(s) == [k |-> "word", v |-> s]

RECURSIVE Stringify(_), ElemsText(_, _), MembersText(_, _, _)

\* JSON.stringify(x).  For undefined the result is undefined, which a later
\* JSON.parse reads as the text "undefined".
Stringify(x) ==
  CASE x.t = "undefined" -> <<TWord("undefined")>>
    [] x.t = "null" -> <<TLit("null")>>
    [] x.t = "string" -> <<TStr(x.v)>>
    [] x.t = "number" -> <<TNum(x.v)>>
    [] x.t = "array" -> <<P("[")>> \o ElemsText(x.v, 1) \o <<P("]")>>
    [] x.t = "object" -> <<P("{")>> \o MembersText(x.v, 1, TRUE) \o <<P("}")>>

\* An undefined array element is written as null.
ElemsText(elems, i) ==
  IF i > Len(elems) THEN <<>>
  ELSE (IF i > 1 THEN <<P(",")>> ELSE <<>>)
       \o (IF elems[i].t = "undefined" THEN <<TLit("null")>> ELSE Stringify(elems[i]))
       \o ElemsText(elems, i + 1)

\* A member whose value is undefined is left out.
MembersText(members, i, first) ==
  IF i > Len(members) THEN <<>>
  ELSE IF members[i].val.t = "undefined" THEN MembersText(members, i + 1, first)
  ELSE (IF first THEN <<>> ELSE <<P(",")>>)
       \o <<TStr(members[i].k), P(":")>> \o Stringify(members[i].val)
       \o MembersText(members, i + 1, FALSE)

ParseFail == [ok |-> FALSE, val |-> JUndefined, next |-> 0]
ParseOk(val, next) == [ok |-> TRUE, val |-> val, next |-> next]
IsPunct(toks, i, c) == i <= Len(toks) /\ toks[i] = P(c)

RECURSIVE ParseValue(_, _), ParseElems(_, _, _), ParseMembers(_, _, _)

\* One JSON value starting at token i: the value and the position after it.
ParseValue(toks, i) ==
  IF i > Len(toks) THEN ParseFail
  ELSE LET tok == toks[i] IN
    CASE tok.k = "string" -> ParseOk(JStr(tok.v), i + 1)
      [] tok.k = "number" -> ParseOk(JNum(tok.v), i + 1)
      [] tok.k = "literal" -> IF tok.v = "null" THEN ParseOk(JNull, i + 1) ELSE ParseFail
      [] tok.k = "word" -> ParseFail
      [] tok.k = "punct" ->
           IF tok.v = "[" THEN
             IF IsPunct(toks, i + 1, "]") THEN ParseOk(JArr(<<>>), i + 2)
             ELSE ParseElems(toks, i + 1, <<>>)
           ELSE IF tok.v = "{" THEN
             IF IsPunct(toks, i + 1, "}") THEN ParseOk(JObj(<<>>), i + 2)
             ELSE ParseMembers(toks, i + 1, JObj(<<>>))
           ELSE ParseFail

ParseElems(toks, i, acc) ==
  LET r == ParseValue(toks, i) IN
    IF ~r.ok THEN ParseFail
    ELSE IF IsPunct(toks, r.next, ",") THEN ParseElems(toks, r.next + 1, Append(acc, r.val))
    ELSE IF IsPunct(toks, r.next, "]") THEN ParseOk(JArr(Append(acc, r.val)), r.next + 1)
    ELSE ParseFail

\* A repeated key keeps its first position and takes the last value.
ParseMembers(toks, i, acc) ==
  IF ~(i + 1 <= Len(toks) /\ toks[i].k = "string" /\ toks[i + 1] = P(":")) THEN ParseFail
  ELSE LET r == ParseValue(toks, i + 2) IN
    IF ~r.ok THEN ParseFail
    ELSE IF IsPunct(toks, r.next, ",")
      THEN ParseMembers(toks, r.next + 1, WithKey(acc, toks[i].v, r.val))
    ELSE IF IsPunct(toks, r.next, "}")
      THEN ParseOk(WithKey(acc, toks[i].v, r.val), r.next + 1)
    ELSE ParseFail

\* JSON.parse(text): ok = FALSE stands for the SyntaxError it throws.
JSONparse(toks) ==
  LET r == ParseValue(toks, 1) IN
    IF r.ok /\ r.next = Len(toks) + 1 THEN [ok |-> TRUE, val |-> r.val]
    ELSE [ok |-> FALSE, val |-> JUndefined]

\* JSON.parse(JSON.stringify(x)), the deep copy pushToHistory takes.
JSONcopy(x) == JSONparse(Stringify(x))

(***************************************************************************)
(* Program constants (App.tsx, constants).                                 *)
(***************************************************************************)
MAX_HISTORY == 30

THEME_COLORS ==
  <<"#f43f5e", "#10b981", "#8b5cf6", "#f97316", "#0ea5e9", "#d946ef", "#eab308">>

\* A ProjectStage and a RoadmapData literal, keys in the order the code writes them.
Stage(id, title, description, color) ==
  JObj(<<Member("id", JStr(id)), Member("title", JStr(title)),
         Member("description", JStr(description)), Member("color", JStr(color))>>)

Roadmap(title, description, stages) ==
  JObj(<<Member("title", JStr(title)), Member("description", JStr(description)),
         Member("stages", JArr(stages))>>)

INITIAL_STAGES ==
  <<Stage("1", "Brief", "Initial consultation and project requirements gathering phase to define core objectives.", "#f43f5e"),
    Stage("2", "Sketch", "Rapid prototyping and low-fidelity visual concepts to explore structural layout.", "#10b981"),
    Stage("3", "Solution", "Defining technical architectures and choosing the right stack for the implementation.", "#8b5cf6"),
    Stage("4", "Design", "High-fidelity UI/UX design with focus on aesthetics, accessibility, and user flows.", "#f97316"),
    Stage("5", "Revision", "Iteration based on stakeholder feedback and rigorous quality assurance testing.", "#0ea5e9")>>

DEFAULT_ROADMAP ==
  Roadmap("Roadmap Visionary",
          "Visualize your project journey with precision. Add stages manually or let AI draft your entire strategy.",
          INITIAL_STAGES)

NEW_TITLE == "New Milestone"
NEW_DESCRIPTION == "Describe what happens in this stage of your journey."

\* THEME_COLORS[n % THEME_COLORS.length], n counted from 0.
ThemeColor(n) == THEME_COLORS[(n % Len(THEME_COLORS)) + 1]

(***************************************************************************)
(* State.                                                                  *)
(***************************************************************************)
VARIABLES
  data,             \* App: the Document (any JavaScript value)
  history,          \* App: the undo snapshots, oldest first
  draggedIndex,     \* App: index of the dragged stage, or NullIndex
  isAiLoading,      \* App: the in-flight flag
  prompt,           \* App: the AI prompt text
  activeSidebarTab, \* App: "ai" or "json"
  aiCall,           \* the generateWithAi calls awaiting their response: the data each closure captured
  localValue,       \* JsonEditor: the text in the textarea
  error,            \* JsonEditor: the error message, or null
  isFocused,        \* JsonEditor: whether the textarea has focus
  mounted,          \* whether the component tree is mounted (FALSE once a render threw)
  slot,             \* localStorage: the text under STORAGE_KEY, or NoSlot
  saveStatus,       \* App: "idle" or "saved"
  timeline,         \* the serpentine Timeline: what it rendered for its stages prop
  clock,            \* number of events so far (bounds the runs)
  pushes,           \* length of the current run of consecutive snapshotting events
  undos             \* undos that took effect right after a run longer than MAX_HISTORY

vars == <<data, history, draggedIndex, isAiLoading, prompt, activeSidebarTab, aiCall,
          localValue, error, isFocused, mounted, slot, saveStatus, timeline,
          clock, pushes, undos>>

appVars == <<data, history, draggedIndex, isAiLoading, prompt, activeSidebarTab, aiCall>>
editorVars == <<localValue, error, isFocused>>

NullIndex == -1
NoCall == <<>>

\* The stage list of a Document, data.stages.
StagesOf(d) == Get(d, "stages")
NumStages(d) == IF IsArr(StagesOf(d)) THEN Len(StagesOf(d).v) ELSE 0

\* Whether App, Timeline and the StageEditors render d without throwing:
\* data.title and data.stages.length are read, every stage's id is read
\* (key={stage.id}), and with stages present data.title and data.description
\* are rendered as text children.
Renders(d) ==
  /\ ~IsNullish(d)
  /\ LET s == StagesOf(d) IN
       \/ s = JStr("")
       \/ /\ IsArr(s)
          /\ \A i \in 1..Len(s.v) : ~IsNullish(s.v[i])
          /\ Len(s.v) > 0 => (~IsObj(Get(d, "title")) /\ ~IsObj(Get(d, "description")))

\* useState initializer of data: the persisted slot is absent (or empty), or a text.
NoSlot == <<>>
LoadData(saved) ==
  IF saved = NoSlot THEN DEFAULT_ROADMAP
  ELSE LET parsed == JSONparse(saved) IN
    IF ~parsed.ok THEN DEFAULT_ROADMAP
    ELSE IF IsArr(parsed.val) THEN WithKey(DEFAULT_ROADMAP, "stages", parsed.val)
    ELSE parsed.val

\* The value JsonEditor's effect writes: JSON.stringify(stages, null, 2) of its
\* stages prop.  App passes the prop data and no stages, so stages is undefined.
EditorStagesProp == JUndefined
EffectText == IF EditorStagesProp.t = "undefined" THEN JUndefined
              ELSE [t |-> "text", v |-> Stringify(EditorStagesProp)]
Text(toks) == [t |-> "text", v |-> toks]

\* (variant for C2: on overflow the newest entry is dropped instead of the oldest)
PushToHistoryDropNewest(prev, currentState) ==
  LET newHistory == Append(prev, JSONcopy(currentState).val) IN
    IF Len(newHistory) > MAX_HISTORY THEN SubSeq(newHistory, 1, Len(newHistory) - 1)
    ELSE newHistory

\* pushToHistory's updater: append a deep copy, drop the oldest beyond MAX_HISTORY.
PushToHistory(prev, currentState) ==
  LET newHistory == Append(prev, JSONcopy(currentState).val) IN
    IF Len(newHistory) > MAX_HISTORY THEN SubSeq(newHistory, 2, Len(newHistory))
    ELSE newHistory

\* Every handler ends in a render of the new data.
Commit(newData) == data' = newData /\ mounted' = Renders(newData)

\* undo
UndoData(d, h) == IF Len(h) = 0 THEN d ELSE h[Len(h)]
\* (variant for C3: undo pops two snapshots)
UndoHistoryTwo(h) ==
  IF Len(h) = 0 THEN h ELSE SubSeq(h, 1, Len(h) - (IF Len(h) > 1 THEN 2 ELSE 1))
UndoHistory(h) == IF Len(h) = 0 THEN h ELSE SubSeq(h, 1, Len(h) - 1)
undo ==
  /\ mounted
  /\ history' = UndoHistory(history)
  /\ Commit(UndoData(data, history))
  /\ UNCHANGED <<draggedIndex, isAiLoading, prompt, activeSidebarTab, aiCall, editorVars>>
  /\ UNCHANGED <<slot, saveStatus, timeline>>

\* updateHeader(updates)
HeaderUpdates ==
  {JObj(<<Member("title", JStr("H"))>>), JObj(<<Member("description", JStr("HD"))>>)}
\* (variant for C17: a header edit also writes the slot)
updateHeaderAutoSave ==
  /\ mounted
  /\ \E updates \in HeaderUpdates :
       Commit(Spread2(data, updates)) /\ slot' = Stringify(Spread2(data, updates))
  /\ UNCHANGED <<history, draggedIndex, isAiLoading, prompt, activeSidebarTab, aiCall, editorVars>>
  /\ UNCHANGED <<saveStatus, timeline>>
updateHeader ==
  /\ mounted
  /\ \E updates \in HeaderUpdates : Commit(Spread2(data, updates))
  /\ UNCHANGED <<history, draggedIndex, isAiLoading, prompt, activeSidebarTab, aiCall, editorVars>>
  /\ UNCHANGED <<slot, saveStatus, timeline>>

\* onFocus of the header inputs and of the Timeline card inputs: pushToHistory(data)
onFocus ==
  /\ mounted
  /\ history' = PushToHistory(history, data)
  /\ UNCHANGED <<data, mounted, draggedIndex, isAiLoading, prompt, activeSidebarTab, aiCall,
                 editorVars>>
  /\ UNCHANGED <<slot, saveStatus, timeline>>

\* Math.random().toString(36).substr(2, 9): some string, not checked against the
\* ids in use.
NewIds == {"a", "b"}

NewStage(newId, n) == Stage(newId, NEW_TITLE, NEW_DESCRIPTION, ThemeColor(n))

\* (variant for C4: the color is taken from the count after the append)
AddedStagesOffByOne(stages, newId) == Append(stages, NewStage(newId, Len(stages) + 1))

\* addNewStage: [...data.stages, {id, title, description, color}]
AddedStages(stages, newId) == Append(stages, NewStage(newId, Len(stages)))
addNewStageCall(newId) ==
  /\ mounted
  /\ Commit(WithKey(data, "stages", JArr(AddedStages(StagesOf(data).v, newId))))
  /\ history' = PushToHistory(history, data)
  /\ UNCHANGED <<draggedIndex, isAiLoading, prompt, activeSidebarTab, aiCall, editorVars>>
  /\ UNCHANGED <<slot, saveStatus, timeline>>
addNewStage == \E newId \in NewIds : addNewStageCall(newId)

\* The ids of the rendered stages, and one id no stage has.
STALE_ID == JStr("gone")
StageIds(d) == {Get(StagesOf(d).v[i], "id") : i \in 1..NumStages(d)}
CallIds(d) == StageIds(d) \cup {STALE_ID}

\* removeStage(id): data.stages.filter(s => s.id !== id)
RemainingStages(stages, id) == SelectSeq(stages, LAMBDA s : Get(s, "id") # id)
removeStageCall(id) ==
  /\ mounted
  /\ Commit(WithKey(data, "stages", JArr(RemainingStages(StagesOf(data).v, id))))
  /\ history' = PushToHistory(history, data)
  /\ UNCHANGED <<draggedIndex, isAiLoading, prompt, activeSidebarTab, aiCall, editorVars>>
  /\ UNCHANGED <<slot, saveStatus, timeline>>
removeStage == \E id \in CallIds(data) : removeStageCall(id)

\* updateStage(id, updates): prev.stages.map(s => s.id === id ? {...s, ...updates} : s)
StageUpdates ==
  {JObj(<<Member("title", JStr("T"))>>),
   JObj(<<Member("description", JStr("D"))>>),
   JObj(<<Member("color", JStr(THEME_COLORS[7]))>>)}
\* (variant for C6: the id is not compared)
UpdatedStagesAll(stages, id, updates) ==
  [i \in 1..Len(stages) |-> Spread2(stages[i], updates)]

UpdatedStages(stages, id, updates) ==
  [i \in 1..Len(stages) |->
     IF Get(stages[i], "id") = id THEN Spread2(stages[i], updates) ELSE stages[i]]
updateStageCall(id, updates) ==
  /\ mounted
  /\ Commit(WithKey(data, "stages", JArr(UpdatedStages(StagesOf(data).v, id, updates))))
  /\ UNCHANGED <<history, draggedIndex, isAiLoading, prompt, activeSidebarTab, aiCall, editorVars>>
  /\ UNCHANGED <<slot, saveStatus, timeline>>
updateStage == \E id \in CallIds(data), updates \in StageUpdates : updateStageCall(id, updates)

(***************************************************************************)
(* Drag to reorder.  Indices count from 0 as in the code.                  *)
(***************************************************************************)
StageIndices(d) == 0..(NumStages(d) - 1)

\* handleDragStart(index)
handleDragStart ==
  /\ mounted
  /\ \E index \in StageIndices(data) : draggedIndex' = index
  /\ history' = PushToHistory(history, data)
  /\ UNCHANGED <<data, mounted, isAiLoading, prompt, activeSidebarTab, aiCall, editorVars>>
  /\ UNCHANGED <<slot, saveStatus, timeline>>

\* arr[i]: undefined beyond the end
At(arr, i) == IF i >= 0 /\ i < Len(arr) THEN arr[i + 1] ELSE JUndefined
\* arr.splice(i, 1): nothing is removed beyond the end
SpliceOut(arr, i) ==
  IF i >= 0 /\ i < Len(arr) THEN SubSeq(arr, 1, i) \o SubSeq(arr, i + 2, Len(arr)) ELSE arr
\* arr.splice(i, 0, item): the position is clamped to the length
SpliceIn(arr, i, item) ==
  LET at == IF i > Len(arr) THEN Len(arr) ELSE i IN
    SubSeq(arr, 1, at) \o <<item>> \o SubSeq(arr, at + 1, Len(arr))

\* (variant for C7: the two stages trade places)
SwappedStages(stages, from, to) ==
  [i \in 1..Len(stages) |->
     IF i = from + 1 THEN At(stages, to) ELSE IF i = to + 1 THEN At(stages, from) ELSE stages[i]]

\* newStages after the two splices of handleDragOver
MovedStages(stages, from, to) == SpliceIn(SpliceOut(stages, from), to, At(stages, from))

\* handleDragOver(e, index)
handleDragOverCall(index) ==
  /\ mounted
  /\ IF draggedIndex = NullIndex \/ draggedIndex = index
     THEN UNCHANGED <<data, mounted, draggedIndex>>
     ELSE /\ draggedIndex' = index
          /\ Commit(WithKey(data, "stages",
                            JArr(MovedStages(StagesOf(data).v, draggedIndex, index))))
  /\ UNCHANGED <<history, isAiLoading, prompt, activeSidebarTab, aiCall, editorVars>>
  /\ UNCHANGED <<slot, saveStatus, timeline>>
handleDragOver == \E index \in StageIndices(data) : handleDragOverCall(index)

\* (variant for C28: the end of the drag takes a snapshot of its own)
handleDragEndPushes ==
  /\ mounted
  /\ draggedIndex' = NullIndex
  /\ history' = PushToHistory(history, data)
  /\ UNCHANGED <<data, mounted, isAiLoading, prompt, activeSidebarTab, aiCall, editorVars>>
  /\ UNCHANGED <<slot, saveStatus, timeline>>
\* handleDragEnd
handleDragEnd ==
  /\ mounted
  /\ draggedIndex' = NullIndex
  /\ UNCHANGED <<data, mounted, history, isAiLoading, prompt, activeSidebarTab, aiCall,
                 editorVars>>
  /\ UNCHANGED <<slot, saveStatus, timeline>>

(***************************************************************************)
(* The JSON source editor (JsonEditor.tsx) and App's handleJsonChange.     *)
(***************************************************************************)
\* setActiveSidebarTab(tab): JsonEditor is mounted only under the "json" tab; a
\* mount starts from its initial state and runs its effect once.
setActiveSidebarTab ==
  /\ mounted
  /\ \E tab \in {"ai", "json"} :
       /\ activeSidebarTab' = tab
       /\ IF tab = activeSidebarTab THEN UNCHANGED editorVars
          ELSE localValue' = EffectText /\ error' = JNull /\ isFocused' = FALSE
  /\ UNCHANGED <<data, mounted, history, draggedIndex, isAiLoading, prompt, aiCall>>
  /\ UNCHANGED <<slot, saveStatus, timeline>>

\* onFocus / onBlur of the textarea; the effect runs when isFocused changes and
\* rewrites the text and clears the error while the editor is not focused.
editorFocus ==
  /\ mounted /\ activeSidebarTab = "json" /\ ~isFocused
  /\ isFocused' = TRUE
  /\ UNCHANGED <<appVars, mounted, localValue, error>>
  /\ UNCHANGED <<slot, saveStatus, timeline>>

editorBlur ==
  /\ mounted /\ activeSidebarTab = "json" /\ isFocused
  /\ isFocused' = FALSE
  /\ localValue' = EffectText
  /\ error' = JNull
  /\ UNCHANGED <<appVars, mounted>>
  /\ UNCHANGED <<slot, saveStatus, timeline>>

\* (variant for C9: the title is not checked)
IsValidNoTitle(parsed) ==
  \A i \in 1..Len(parsed.v) : parsed.v[i].t \in {"object", "array"}

\* parsed.every(item => typeof item === 'object' && item !== null &&
\*                      typeof item.title === 'string')
IsValid(parsed) ==
  \A i \in 1..Len(parsed.v) :
    /\ parsed.v[i].t \in {"object", "array"}
    /\ Get(parsed.v[i], "title").t = "string"

\* handleJsonChange(newData): replace when the two serializations differ
JsonChanges(newData, d) == Stringify(newData) # Stringify(d)

\* The error handleInputChange sets for a text (null: none), and whether it
\* calls onChange.
InputError(newValue) ==
  LET parsed == JSONparse(newValue) IN
    IF ~parsed.ok THEN JStr("Invalid JSON syntax")
    ELSE IF ~IsArr(parsed.val) THEN JStr("Must be a JSON array.")
    ELSE IF ~IsValid(parsed.val) THEN JStr("Invalid stage structure.")
    ELSE JNull

\* The texts typed into the editor.
StageText(id, title) ==
  <<P("{"), TStr("id"), P(":"), TStr(id), P(","), TStr("title"), P(":"), TStr(title), P("}")>>
EditorTexts(d) ==
  { <<P("{"), TWord("invalid")>>,
    <<P("["), P("]")>>,
    <<P("{"), P("}")>>,
    <<TLit("null")>>,
    <<P("["), TNum("1"), P("]")>>,
    <<P("["), TLit("null"), P("]")>>,
    <<P("["), P("{"), TStr("title"), P(":"), TNum("1"), P("}"), P("]")>>,
    <<P("["), P("{"), TStr("title"), P(":"), TStr("A"), P("}"), P("]")>>,
    <<P("[")>> \o StageText("a", "A") \o <<P(",")>> \o StageText("a", "B") \o <<P("]")>>,
    Stringify(StagesOf(d)),
    Stringify(d) }

\* handleInputChange(e)
handleInputChangeCall(newValue) ==
  /\ mounted /\ activeSidebarTab = "json" /\ isFocused
  /\ localValue' = Text(newValue)
  /\ error' = InputError(newValue)
  /\ IF InputError(newValue) = JNull /\ JsonChanges(JSONparse(newValue).val, data)
     THEN /\ history' = PushToHistory(history, data)
          /\ Commit(JSONparse(newValue).val)
     ELSE UNCHANGED <<data, mounted, history>>
  /\ UNCHANGED <<draggedIndex, isAiLoading, prompt, activeSidebarTab, aiCall, isFocused>>
  /\ UNCHANGED <<slot, saveStatus, timeline>>
handleInputChange == \E newValue \in EditorTexts(data) : handleInputChangeCall(newValue)

(***************************************************************************)
(* The AI draft (generateWithAi).                                          *)
(***************************************************************************)
\* prompt.trim() of the prompts the model types
Prompts == {"", " ", "launch plan"}
Trim(p) == IF p = " " THEN "" ELSE p

setPrompt ==
  /\ mounted /\ activeSidebarTab = "ai"
  /\ \E p \in Prompts : prompt' = p
  /\ UNCHANGED <<data, mounted, history, draggedIndex, isAiLoading, activeSidebarTab, aiCall,
                 editorVars>>
  /\ UNCHANGED <<slot, saveStatus, timeline>>

\* (variant for C15: the button is not disabled while a request is in flight)
generateWithAiAnyTime ==
  /\ mounted /\ activeSidebarTab = "ai"
  /\ IF Trim(prompt) = "" THEN UNCHANGED <<isAiLoading, aiCall>>
     ELSE isAiLoading' = TRUE /\ aiCall' = Append(aiCall, data)
  /\ UNCHANGED <<data, mounted, history, draggedIndex, prompt, activeSidebarTab, editorVars>>
  /\ UNCHANGED <<slot, saveStatus, timeline>>

\* generateWithAi up to its await: the handler's closure holds the data of the
\* render it was created in.  The button is disabled while isAiLoading.
generateWithAi ==
  /\ mounted /\ activeSidebarTab = "ai" /\ ~isAiLoading
  /\ IF Trim(prompt) = "" THEN UNCHANGED <<isAiLoading, aiCall>>
     ELSE isAiLoading' = TRUE /\ aiCall' = Append(aiCall, data)
  /\ UNCHANGED <<data, mounted, history, draggedIndex, prompt, activeSidebarTab, editorVars>>
  /\ UNCHANGED <<slot, saveStatus, timeline>>

RECURSIVE PairsText(_)
\* What the awaited call yields: a rejection, or a response whose text is one of these.
PairText(title, description) ==
  <<P("{"), TStr("title"), P(":"), TStr(title), P(","),
    TStr("description"), P(":"), TStr(description), P("}")>>
\* a response of eight pairs, one more than there are colors
PairsText(n) ==
  IF n = 0 THEN <<>>
  ELSE PairsText(n - 1) \o (IF n = 1 THEN <<>> ELSE <<P(",")>>)
         \o PairText(<<"A", "B", "C", "D", "E", "F", "G", "H", "I">>[n], "x")
LongText == <<P("[")>> \o PairsText(Len(THEME_COLORS) + 1) \o <<P("]")>>
AiTexts ==
  { <<P("["), P("]")>>,
    <<P("[")>> \o PairText("Plan", "x") \o <<P("]")>>,
    <<P("[")>> \o PairText("Plan", "x") \o <<P(",")>> \o PairText("Build", "y") \o <<P("]")>>,
    <<P("["), TWord("oops")>>,
    <<P("{"), P("}")>>,
    <<TLit("null")>>,
    <<P("["), TLit("null"), P("]")>>,
    <<P("["), TNum("1"), P("]")>>,
    LongText }

\* Whether parsedStages.map(item => ... item.title ...) throws a TypeError.
MapThrows(parsedStages) ==
  \/ ~IsArr(parsedStages)
  \/ \E i \in 1..Len(parsedStages.v) : IsNullish(parsedStages.v[i])

\* (variant for C12: the color index is one too far)
DraftStagesShifted(parsedStages, ids) ==
  [i \in 1..Len(parsedStages.v) |->
     JObj(<<Member("id", JStr(ids[i])),
            Member("title", Get(parsedStages.v[i], "title")),
            Member("description", Get(parsedStages.v[i], "description")),
            Member("color", JStr(ThemeColor(i)))>>)]

\* The stages the map builds; ids[i] is the i-th Math.random id.
DraftStages(parsedStages, ids) ==
  [i \in 1..Len(parsedStages.v) |->
     JObj(<<Member("id", JStr(ids[i])),
            Member("title", Get(parsedStages.v[i], "title")),
            Member("description", Get(parsedStages.v[i], "description")),
            Member("color", JStr(ThemeColor(i - 1)))>>)]

\* The Math.random ids of one draft: all different, or all the same.
FreshIds == <<"n1", "n2", "n3", "n4", "n5", "n6", "n7", "n8", "n9">>
DraftIds(k) ==
  {[j \in 1..k |-> FreshIds[j]]} \cup {[j \in 1..k |-> id] : id \in NewIds}

\* generateWithAi after its await, for a response text; captured is the data
\* of the closure
aiResolve(text, captured) ==
  LET parsed == JSONparse(text) IN
    IF ~parsed.ok THEN UNCHANGED <<data, mounted, history, prompt>>
    ELSE /\ history' = PushToHistory(history, captured)
         /\ IF MapThrows(parsed.val) THEN UNCHANGED <<data, mounted, prompt>>
            ELSE /\ \E ids \in DraftIds(Len(parsed.val.v)) :
                      Commit(WithKey(data, "stages", JArr(DraftStages(parsed.val, ids))))
                 /\ prompt' = ""

\* (variant for C22: the finally block does not clear the flag)
aiFinallyKeepsFlag(i) ==
  /\ aiCall' = SubSeq(aiCall, 1, i - 1) \o SubSeq(aiCall, i + 1, Len(aiCall))
  /\ isAiLoading' = isAiLoading
  /\ UNCHANGED <<draggedIndex, activeSidebarTab, editorVars>>
  /\ UNCHANGED <<slot, saveStatus, timeline>>

\* The awaited call settles: the finally block, after a rejection (transport
\* error) or a response.  State updates of an unmounted tree are dropped.
aiFinally(i) ==
  /\ aiCall' = SubSeq(aiCall, 1, i - 1) \o SubSeq(aiCall, i + 1, Len(aiCall))
  /\ isAiLoading' = IF mounted THEN FALSE ELSE isAiLoading
  /\ UNCHANGED <<draggedIndex, activeSidebarTab, editorVars>>
  /\ UNCHANGED <<slot, saveStatus, timeline>>
aiReject(i) ==
  /\ aiFinally(i)
  /\ UNCHANGED <<data, mounted, history, prompt>>
aiRespond(i, text) ==
  /\ aiFinally(i)
  /\ IF ~mounted THEN UNCHANGED <<data, mounted, history, prompt>>
     ELSE aiResolve(text, aiCall[i])
aiSettle ==
  \E i \in 1..Len(aiCall) : aiReject(i) \/ \E text \in AiTexts : aiRespond(i, text)

(***************************************************************************)
(* The persisted slot (localStorage) and the page load.                    *)
(***************************************************************************)
\* saveToLocalStorage: the slot is overwritten with JSON.stringify(data)
saveToLocalStorage ==
  /\ mounted
  /\ slot' = Stringify(data)
  /\ saveStatus' = "saved"
  /\ UNCHANGED <<appVars, editorVars, mounted, timeline>>

\* The timer of the saveStatus effect: three seconds after a save the
\* indicator goes back to idle.
saveStatusTimeout ==
  /\ mounted /\ saveStatus = "saved"
  /\ saveStatus' = "idle"
  /\ UNCHANGED <<appVars, editorVars, mounted, slot, timeline>>

\* The page is loaded again: App is constructed anew, data from the slot.
\* Calls still awaiting a response belong to the old page and are gone.
startup ==
  /\ data' = LoadData(slot)
  /\ mounted' = Renders(LoadData(slot))
  /\ history' = <<>>
  /\ draggedIndex' = NullIndex
  /\ isAiLoading' = FALSE
  /\ prompt' = ""
  /\ activeSidebarTab' = "json"
  /\ aiCall' = NoCall
  /\ localValue' = EffectText
  /\ error' = JNull
  /\ isFocused' = FALSE
  /\ saveStatus' = "idle"
  /\ UNCHANGED <<slot, timeline>>

(***************************************************************************)
(* The serpentine Timeline: one valley or peak per stage along a path.     *)
(***************************************************************************)
STAGE_WIDTH == 380
HEIGHT == 600
AMPLITUDE == 150
MIN_VIEWBOX_WIDTH == 1200
Point(x, y) == [x |-> x, y |-> y]
Max(a, b) == IF a > b THEN a ELSE b

CenterY == HEIGHT \div 2
\* (variant for C20: the parity is inverted)
IsPeakEven(i) == i % 2 = 0
IsPeak(i) == i % 2 = 1
TargetY(i) == IF IsPeak(i) THEN CenterY - AMPLITUDE ELSE CenterY + AMPLITUDE

\* the two curves pathData appends for stage i: "C cp1, cp2, end"
Curve(cp1, cp2, end) == [cp1 |-> cp1, cp2 |-> cp2, end |-> end]
\* (variant for C23: the second curve stays at the anchor's height)
StageCurvesOpen(i) ==
  LET xStart == i * STAGE_WIDTH
      xEnd == (i + 1) * STAGE_WIDTH
      xMid == xStart + STAGE_WIDTH \div 2
      third == (STAGE_WIDTH * 3) \div 10
      cp1y == IF i = 0 THEN CenterY
              ELSE IF i % 2 = 0 THEN CenterY - AMPLITUDE ELSE CenterY + AMPLITUDE
  IN << Curve(Point(xStart + third, cp1y), Point(xMid - third, TargetY(i)),
              Point(xMid, TargetY(i))),
        Curve(Point(xMid + third, TargetY(i)), Point(xEnd - third, CenterY),
              Point(xEnd, TargetY(i))) >>
StageCurves(i) ==
  LET xStart == i * STAGE_WIDTH
      xEnd == (i + 1) * STAGE_WIDTH
      xMid == xStart + STAGE_WIDTH \div 2
      third == (STAGE_WIDTH * 3) \div 10
      cp1y == IF i = 0 THEN CenterY
              ELSE IF i % 2 = 0 THEN CenterY - AMPLITUDE ELSE CenterY + AMPLITUDE
  IN << Curve(Point(xStart + third, cp1y), Point(xMid - third, TargetY(i)),
              Point(xMid, TargetY(i))),
        Curve(Point(xMid + third, TargetY(i)), Point(xEnd - third, CenterY),
              Point(xEnd, CenterY)) >>

\* the curves of stages 0..n-1, in the order the loop appends them
Curves(n) == [k \in 1..(2 * n) |-> StageCurves((k - 1) \div 2)[((k - 1) % 2) + 1]]

\* pathData: empty for no stages, else "M 0 centerY" and two curves per stage
PathData(n) ==
  IF n = 0 THEN [start |-> <<>>, curves |-> <<>>]
  ELSE [start |-> <<Point(0, CenterY)>>, curves |-> Curves(n)]

\* the marker of stage i: translate(x, y)
Marker(i) ==
  Point(i * STAGE_WIDTH + STAGE_WIDTH \div 2,
        IF IsPeak(i) THEN CenterY - AMPLITUDE ELSE CenterY + AMPLITUDE)

\* What Timeline renders for n stages.
TimelineView(n) ==
  [n |-> n,
   viewBoxWidth |-> Max(MIN_VIEWBOX_WIDTH, n * STAGE_WIDTH),
   path |-> PathData(n),
   markers |-> [j \in 1..n |-> Marker(j - 1)]]

\* The later version of the serpentine Timeline (part_001): the loop of
\* pathData runs over stages.length + 1 slots, and the view box is half a slot
\* wider; the markers are those of the stages.
Curves_001(n) == [k \in 1..(2 * (n + 1)) |-> StageCurves((k - 1) \div 2)[((k - 1) % 2) + 1]]

PathData_001(n) ==
  IF n = 0 THEN [start |-> <<>>, curves |-> <<>>]
  ELSE [start |-> <<Point(0, CenterY)>>, curves |-> Curves_001(n)]

TimelineView_001(n) ==
  [n |-> n,
   viewBoxWidth |-> Max(MIN_VIEWBOX_WIDTH, n * STAGE_WIDTH + STAGE_WIDTH \div 2),
   path |-> PathData_001(n),
   markers |-> [j \in 1..n |-> Marker(j - 1)]]

MaxShown == 60
\* Timeline is rendered with a stages prop of n stages.
renderTimeline ==
  /\ \E n \in 0..MaxShown : timeline' = TimelineView(n)
  /\ UNCHANGED <<appVars, editorVars, mounted, slot, saveStatus, clock, pushes, undos>>

\* The later Timeline is rendered with a stages prop of n stages.
renderTimeline_001 ==
  /\ \E n \in 0..MaxShown : timeline' = TimelineView_001(n)
  /\ UNCHANGED <<appVars, editorVars, mounted, slot, saveStatus, clock, pushes, undos>>

\* The multi-row Timeline (components/Timeline.tsx), in its two versions:
\* v = 1 is the first Timeline of the file, v = 2 the second, which App renders.
STAGES_PER_ROW == 3
ROWS_STAGE_WIDTH == 450
ROW_HEIGHT == 500
HORIZONTAL_PADDING == 100
ROAD_OFFSET_Y(v) == IF v = 1 THEN 150 ELSE 140
\* Math.ceil(data.stages.length / STAGES_PER_ROW)
NumRows(n) == (n + STAGES_PER_ROW - 1) \div STAGES_PER_ROW
VIEWBOX_WIDTH == STAGES_PER_ROW * ROWS_STAGE_WIDTH + HORIZONTAL_PADDING * 2
VIEWBOX_HEIGHT(v, n) ==
  NumRows(n) * ROW_HEIGHT + ROAD_OFFSET_Y(v) + (IF v = 1 THEN 100 ELSE 50)

\* (variant for C26: every row runs left to right)
getStagePosOneWay(v, i) ==
  LET row == i \div STAGES_PER_ROW
      col == i % STAGES_PER_ROW
  IN [x |-> col * ROWS_STAGE_WIDTH + ROWS_STAGE_WIDTH \div 2 + HORIZONTAL_PADDING,
      y |-> row * ROW_HEIGHT + ROW_HEIGHT \div 2 + ROAD_OFFSET_Y(v),
      row |-> row, col |-> col, isEvenRow |-> row % 2 = 0]
getStagePos(v, i) ==
  LET row == i \div STAGES_PER_ROW
      col == i % STAGES_PER_ROW
      isEvenRow == row % 2 = 0
  IN [x |-> IF isEvenRow
            THEN col * ROWS_STAGE_WIDTH + ROWS_STAGE_WIDTH \div 2 + HORIZONTAL_PADDING
            ELSE (STAGES_PER_ROW - col) * ROWS_STAGE_WIDTH - ROWS_STAGE_WIDTH \div 2
                 + HORIZONTAL_PADDING,
      y |-> row * ROW_HEIGHT + ROW_HEIGHT \div 2 + ROAD_OFFSET_Y(v),
      row |-> row, col |-> col, isEvenRow |-> isEvenRow]

\* (variant for C30: the U-turn bulges by a whole stage width)
bulgeWidthFull == ROWS_STAGE_WIDTH
\* STAGE_WIDTH * 0.7
bulgeWidth == (ROWS_STAGE_WIDTH * 7) \div 10

\* the curve the loop of pathData appends from stage i to stage i + 1
RowCurve(v, i) ==
  LET current == getStagePos(v, i)
      next == getStagePos(v, i + 1)
      half == ROWS_STAGE_WIDTH \div 2
  IN IF current.row = next.row
     THEN Curve(Point(current.x + (IF current.isEvenRow THEN half ELSE -half), current.y),
                Point(next.x - (IF next.isEvenRow THEN half ELSE -half), next.y),
                Point(next.x, next.y))
     ELSE LET isRightTurn == current.isEvenRow
          IN Curve(Point(current.x + (IF isRightTurn THEN bulgeWidth ELSE -bulgeWidth),
                         current.y),
                   Point(next.x + (IF isRightTurn THEN bulgeWidth ELSE -bulgeWidth),
                         next.y),
                   Point(next.x, next.y))

\* (variant for C25: the path stops at the last stage)
ExitLengthNone(v) == 0
\* how far the path runs on after the last stage
ExitLength(v) == IF v = 1 THEN 100 ELSE 150

\* pathData: "M entry", "L first stage", one curve per pair of neighbours,
\* "L exit"; empty for no stages
RowsPathData(v, n) ==
  IF n = 0 THEN [start |-> <<>>, first |-> <<>>, curves |-> <<>>, last |-> <<>>]
  ELSE LET firstPos == getStagePos(v, 0)
           lastPos == getStagePos(v, n - 1)
       IN [start |-> <<Point(firstPos.x - (IF firstPos.isEvenRow THEN 100 ELSE -100),
                             firstPos.y)>>,
           first |-> <<Point(firstPos.x, firstPos.y)>>,
           curves |-> [k \in 1..(n - 1) |-> RowCurve(v, k - 1)],
           last |-> <<Point(lastPos.x + (IF lastPos.isEvenRow THEN ExitLength(v)
                                         ELSE -ExitLength(v)),
                            lastPos.y)>>]

\* the add button of the second Timeline: translate(plusX, plusY)
Plus(v, n) ==
  IF v = 1 \/ n = 0 THEN <<>>
  ELSE LET lastPos == getStagePos(v, n - 1)
       IN <<Point(lastPos.x + (IF lastPos.isEvenRow THEN 150 ELSE -150), lastPos.y)>>

\* What the multi-row Timeline renders for n stages.
RowsView(v, n) ==
  [n |-> n,
   viewBoxWidth |-> VIEWBOX_WIDTH,
   viewBoxHeight |-> VIEWBOX_HEIGHT(v, n),
   path |-> RowsPathData(v, n),
   markers |-> [j \in 1..n |-> Point(getStagePos(v, j - 1).x, getStagePos(v, j - 1).y)],
   plus |-> Plus(v, n)]

\* The multi-row Timeline (version v) is rendered with a Document of n stages.
renderTimelineRows(v) ==
  /\ \E n \in 0..MaxShown : timeline' = RowsView(v, n)
  /\ UNCHANGED <<appVars, editorVars, mounted, slot, saveStatus, clock, pushes, undos>>

(***************************************************************************)
(* Specifications.                                                         *)
(***************************************************************************)
MaxEvents == 3
MaxSyncEvents == 4
MaxChain == 1
MaxSeed == 7
MaxAiEvents == 5
MaxLoadEvents == 3
MaxStorageEvents == 2

\* Documents found in the persisted slot at startup.
SeedStage(i) == Stage(<<"s1", "s2", "s3", "s4", "s5", "s6", "s7", "s8", "s9">>[i],
                      <<"One", "Two", "Three", "Four", "Five", "Six", "Seven", "Eight", "Nine">>[i],
                      "seed", ThemeColor(i - 1))
SeedRoadmap(n) == Roadmap("R", "d", [i \in 1..n |-> SeedStage(i)])
SavedTexts == {NoSlot, Stringify(SeedRoadmap(0)), Stringify(SeedRoadmap(3))}

InitWithView(saved, view) ==
  /\ data = LoadData(saved)
  /\ history = <<>>
  /\ draggedIndex = NullIndex
  /\ isAiLoading = FALSE
  /\ prompt = ""
  /\ activeSidebarTab = "json"
  /\ aiCall = NoCall
  /\ localValue = EffectText
  /\ error = JNull
  /\ isFocused = FALSE
  /\ mounted = Renders(data)
  /\ slot = saved
  /\ saveStatus = "idle"
  /\ timeline = view
  /\ clock = 0
  /\ pushes = 0
  /\ undos = 0
InitWith(saved) == InitWithView(saved, TimelineView(0))

Init == \E saved \in SavedTexts : InitWith(saved)

\* Bookkeeping of the event kinds, for the claims about runs of events.
Tick == clock < MaxEvents /\ clock' = clock + 1
Pushed ==
  /\ pushes' = IF undos > 0 THEN 1
               ELSE IF pushes <= MAX_HISTORY THEN pushes + 1 ELSE pushes
  /\ undos' = 0
Undone ==
  /\ pushes' = IF pushes > MAX_HISTORY THEN pushes ELSE 0
  /\ undos' = IF pushes > MAX_HISTORY /\ Len(history) > 0 THEN undos + 1 ELSE undos
Other == pushes' = 0 /\ undos' = 0

\* The whole program.
Next ==
  \/ Tick /\ Undone /\ undo
  \/ Tick /\ Other /\ updateHeader
  \/ Tick /\ Pushed /\ onFocus
  \/ Tick /\ Pushed /\ addNewStage
  \/ Tick /\ Pushed /\ removeStage
  \/ Tick /\ Other /\ updateStage
  \/ Tick /\ Pushed /\ handleDragStart
  \/ Tick /\ Other /\ handleDragOver
  \/ Tick /\ Other /\ handleDragEnd
  \/ Tick /\ Other /\ setActiveSidebarTab
  \/ Tick /\ Other /\ editorFocus
  \/ Tick /\ Other /\ editorBlur
  \/ Tick /\ Other /\ handleInputChange
  \/ Tick /\ Other /\ setPrompt
  \/ Tick /\ Other /\ generateWithAi
  \/ Tick /\ Other /\ aiSettle

Spec == Init /\ [][Next]_vars

\* The stage store and its editor: add, remove, update, reorder, undo.
NextStore ==
  \/ Tick /\ Undone /\ undo
  \/ Tick /\ Other /\ updateHeader
  \/ Tick /\ Pushed /\ removeStage
  \/ Tick /\ Pushed /\ addNewStage
  \/ Tick /\ Pushed /\ onFocus
  \/ Tick /\ Other /\ updateStage
  \/ Tick /\ Pushed /\ handleDragStart
  \/ Tick /\ Other /\ handleDragOver
  \/ Tick /\ Other /\ handleDragEnd

InitStore == \E n \in {0, 3} : InitWith(Stringify(SeedRoadmap(n)))

SpecStore == InitStore /\ [][NextStore]_vars

\* The JSON source editor beside undo and field edits.
SyncTick == clock < MaxSyncEvents /\ clock' = clock + 1
NextSync ==
  \/ SyncTick /\ Undone /\ undo
  \/ SyncTick /\ Pushed /\ onFocus
  \/ SyncTick /\ Other /\ updateStage
  \/ SyncTick /\ Other /\ setActiveSidebarTab
  \/ SyncTick /\ Other /\ editorFocus
  \/ SyncTick /\ Other /\ editorBlur
  \/ SyncTick /\ Other /\ handleInputChange

InitSync == \E n \in {0, 2} : InitWith(Stringify(SeedRoadmap(n)))

SpecSync == InitSync /\ [][NextSync]_vars

\* Long runs of snapshots and undos; a stage is added only to a Document of
\* fewer than MaxChain stages while the history is shorter than MaxChain.
NextHistory ==
  \/ Undone /\ undo /\ UNCHANGED clock
  \/ Pushed /\ removeStageCall(STALE_ID) /\ UNCHANGED clock
  \/ /\ Pushed /\ NumStages(data) < MaxChain /\ Len(history) < MaxChain
     /\ addNewStageCall("a") /\ UNCHANGED clock

InitHistory == InitWith(Stringify(SeedRoadmap(0)))

SpecHistory == InitHistory /\ [][NextHistory]_vars

\* addNewStage on Documents of every length up to MaxSeed.
NextAdd ==
  \/ Tick /\ Undone /\ undo
  \/ Tick /\ Pushed /\ addNewStage

InitAdd ==
  \/ InitWith(NoSlot)
  \/ \E n \in 0..MaxSeed : InitWith(Stringify(SeedRoadmap(n)))

SpecAdd == InitAdd /\ [][NextAdd]_vars

\* The AI draft beside additions and undo.
AiTick == clock < MaxAiEvents /\ clock' = clock + 1
NextAi ==
  \/ AiTick /\ Other /\ setActiveSidebarTab
  \/ AiTick /\ Other /\ setPrompt
  \/ AiTick /\ Other /\ generateWithAi
  \/ AiTick /\ Other /\ aiSettle
  \/ AiTick /\ Pushed /\ addNewStage
  \/ AiTick /\ Undone /\ undo

InitAi == \E n \in {0, 2} : InitWith(Stringify(SeedRoadmap(n)))

SpecAi == InitAi /\ [][NextAi]_vars

\* Page loads from every kind of slot content, saves and a few edits.
StoredTexts ==
  { NoSlot,
    <<P("{"), TWord("invalid")>>,
    <<P("{"), P("}")>>,
    <<TLit("null")>>,
    <<P("{"), TStr("title"), P(":"), TStr("R"), P("}")>>,
    <<P("["), P("]")>>,
    Stringify(StagesOf(SeedRoadmap(2))),
    Stringify(SeedRoadmap(1)) }
LoadTick == clock < MaxLoadEvents /\ clock' = clock + 1
NextLoad ==
  \/ LoadTick /\ Other /\ startup
  \/ LoadTick /\ Other /\ saveToLocalStorage
  \/ LoadTick /\ Other /\ saveStatusTimeout
  \/ LoadTick /\ Other /\ updateHeader
  \/ LoadTick /\ Pushed /\ addNewStage
  \/ LoadTick /\ Undone /\ undo

InitLoad == \E saved \in StoredTexts : InitWith(saved)

SpecLoad == InitLoad /\ [][NextLoad]_vars

\* Every handler beside the save action, from a page whose user has already
\* chosen a sidebar tab and typed a prompt.
StorageTick == clock < MaxStorageEvents /\ clock' = clock + 1
NextStorage ==
  \/ StorageTick /\ Other /\ saveToLocalStorage
  \/ StorageTick /\ Other /\ saveStatusTimeout
  \/ StorageTick /\ Undone /\ undo
  \/ StorageTick /\ Other /\ updateHeader
  \/ StorageTick /\ Pushed /\ onFocus
  \/ StorageTick /\ Pushed /\ addNewStage
  \/ StorageTick /\ Pushed /\ removeStage
  \/ StorageTick /\ Other /\ updateStage
  \/ StorageTick /\ Pushed /\ handleDragStart
  \/ StorageTick /\ Other /\ handleDragOver
  \/ StorageTick /\ Other /\ handleDragEnd
  \/ StorageTick /\ Other /\ setActiveSidebarTab
  \/ StorageTick /\ Other /\ editorFocus
  \/ StorageTick /\ Other /\ editorBlur
  \/ StorageTick /\ Other /\ handleInputChange
  \/ StorageTick /\ Other /\ setPrompt
  \/ StorageTick /\ Other /\ generateWithAi
  \/ StorageTick /\ Other /\ aiSettle

InitStorage ==
  \E tab \in {"ai", "json"}, p \in {"", "launch plan"} :
    /\ data = SeedRoadmap(2)
    /\ history = <<>>
    /\ draggedIndex = NullIndex
    /\ isAiLoading = FALSE
    /\ prompt = p
    /\ activeSidebarTab = tab
    /\ aiCall = NoCall
    /\ localValue = EffectText
    /\ error = JNull
    /\ isFocused = FALSE
    /\ mounted = TRUE
    /\ slot = Stringify(SeedRoadmap(2))
    /\ saveStatus = "idle"
    /\ timeline = TimelineView(0)
    /\ clock = 0
    /\ pushes = 0
    /\ undos = 0

SpecStorage == InitStorage /\ [][NextStorage]_vars

\* The serpentine Timeline rendered for every number of stages up to MaxShown.
NextSerpentine == renderTimeline \/ renderTimeline_001

InitSerpentine == InitWith(NoSlot)

SpecSerpentine == InitSerpentine /\ [][NextSerpentine]_vars

\* The multi-row Timeline rendered, in both versions, for every number of
\* stages up to MaxShown.
NextRows == renderTimelineRows(1) \/ renderTimelineRows(2)

InitRows == InitWithView(NoSlot, RowsView(2, 0))

SpecRows == InitRows /\ [][NextRows]_vars

\* Every layout of the lineage rendered for every number of stages.
NextLayout ==
  \/ renderTimeline
  \/ renderTimeline_001
  \/ renderTimelineRows(1)
  \/ renderTimelineRows(2)

SpecLayout == InitSerpentine /\ [][NextLayout]_vars

\* The AI draft with the external call bound to complete or fail: the user's
\* events are bounded, the settlement of a request is not.
MaxLiveEvents == 4
LiveTick == clock < MaxLiveEvents /\ clock' = clock + 1
Settles == Other /\ aiSettle /\ UNCHANGED clock
NextAiLive ==
  \/ LiveTick /\ Other /\ setActiveSidebarTab
  \/ LiveTick /\ Other /\ setPrompt
  \/ LiveTick /\ Other /\ generateWithAi
  \/ LiveTick /\ Pushed /\ addNewStage
  \/ LiveTick /\ Undone /\ undo
  \/ Settles

SpecAiLive == InitAi /\ [][NextAiLive]_vars /\ WF_vars(Settles)

(***************************************************************************)
(* Properties.                                                             *)
(***************************************************************************)
Stages(d) == StagesOf(d).v
SameHeader(d, e) ==
  Get(d, "title") = Get(e, "title") /\ Get(d, "description") = Get(e, "description")

\* C1: undo is the exact inverse of the last snapshotting mutation: right after
\* addNewStage, removeStage, a JSON-editor replacement or an AI replacement the
\* undo handler can run, and it yields the Document and the history the
\* mutation started from.
SnapshottingMutation ==
  \/ addNewStage
  \/ removeStage
  \/ handleInputChange /\ data' # data
  \/ aiSettle /\ data' # data
C1_UndoInvertsMutation ==
  [][SnapshottingMutation =>
       /\ mounted'
       /\ UndoData(data', history') = data
       /\ UndoHistory(history') = history]_vars

\* C2: the history never holds more than 30 snapshots, and a snapshot pushed
\* onto a history of 30 drops exactly the oldest entry: the other 29 keep their
\* order and the pushed Document is the newest.
PushStep == onFocus \/ addNewStage \/ removeStage \/ handleDragStart
C2_HistoryBounded ==
  /\ [](Len(history) <= 30)
  /\ [][(PushStep /\ Len(history) = 30) =>
          history' = Append(SubSeq(history, 2, 30), data)]_vars
C2_Witness ==
  /\ pushes > 30
  /\ Len(history) = 30
  /\ \A i \in 1..30 : history[i] # SeedRoadmap(0)
  /\ data # SeedRoadmap(0)

\* C3: undo on an empty history changes neither the Document nor the history,
\* an undo on a non-empty history consumes exactly one snapshot, and after a
\* run of more than 30 snapshotting events the snapshots left and the undos
\* that took effect add up to 30: exactly 30 undos take effect.
C3_UndoExhausts ==
  /\ [](pushes > 30 => Len(history) + undos = 30)
  /\ [][undo =>
          IF Len(history) = 0 THEN data' = data /\ history' = history
          ELSE Len(history') = Len(history) - 1 /\ data' = history[Len(history)]]_vars
C3_Witness == pushes > 30 /\ undos = 30 /\ history = <<>> /\ NumStages(data) = 0

\* C4: addNewStage on n stages yields n+1 stages, the first n as before, the
\* last titled "New Milestone" with color THEME_COLORS[n mod 7]; the header is
\* unchanged and the newest snapshot is the Document before the call.
C4_AddNewStage ==
  [][addNewStage =>
       LET n == NumStages(data) IN
         /\ Len(Stages(data')) = n + 1
         /\ SubSeq(Stages(data'), 1, n) = Stages(data)
         /\ Get(Stages(data')[n + 1], "title") = JStr("New Milestone")
         /\ Get(Stages(data')[n + 1], "color") = JStr(THEME_COLORS[(n % 7) + 1])
         /\ SameHeader(data', data)
         /\ Len(history') > 0
         /\ history'[Len(history')] = data]_vars
C4_Witness ==
  /\ NumStages(data) = 8
  /\ SubSeq(Stages(data), 1, 7) = Stages(SeedRoadmap(7))
  /\ Get(Stages(data)[8], "title") = JStr("New Milestone")
  /\ Get(Stages(data)[8], "color") = JStr("#f43f5e")
  /\ history = <<SeedRoadmap(7)>>

\* C5: removeStage(id) with an id no stage has leaves the Document and the
\* history as they were.
C5_RemoveUnknownIsNoOp ==
  [][\A id \in CallIds(data) \ StageIds(data) :
       removeStageCall(id) => (data' = data /\ history' = history)]_vars

\* C6: updateStage(id, updates) changes only the fields named in updates of the
\* stages whose id is id; the other stages, the order, the header and the
\* history stay, and with no such stage nothing changes.
UpdateKeys(updates) == {updates.v[i].k : i \in 1..Len(updates.v)}
C6_UpdateStageFrame ==
  [][\A id \in CallIds(data), updates \in StageUpdates :
       updateStageCall(id, updates) =>
         /\ history' = history
         /\ SameHeader(data', data)
         /\ Len(Stages(data')) = Len(Stages(data))
         /\ \A i \in 1..Len(Stages(data)) :
              IF Get(Stages(data)[i], "id") = id
              THEN \A key \in {"id", "title", "description", "color"} :
                     Get(Stages(data')[i], key) =
                       IF key \in UpdateKeys(updates) THEN Get(updates, key)
                       ELSE Get(Stages(data)[i], key)
              ELSE Stages(data')[i] = Stages(data)[i]
         /\ (id \notin StageIds(data) => data' = data)]_vars
C6_Witness ==
  /\ NumStages(data) = 3
  /\ Stages(data)[2] = Stage("s2", "T", "seed", "#10b981")
  /\ Stages(data)[1] = Stages(SeedRoadmap(3))[1]
  /\ Stages(data)[3] = Stages(SeedRoadmap(3))[3]
  /\ history = <<>>

\* C7: a drag-over step from a valid dragged index f to another index t moves
\* the stage at f to position t: the stages between shift by one toward f, all
\* others stay, and draggedIndex becomes t.
MoveExpected(old, f, t) ==
  [j \in 1..Len(old) |->
     IF j - 1 = t THEN old[f + 1]
     ELSE IF f < t THEN (IF j - 1 < f \/ j - 1 > t THEN old[j] ELSE old[j + 1])
     ELSE (IF j - 1 < t \/ j - 1 > f THEN old[j] ELSE old[j - 1])]
C7_DragOverMoves ==
  [][\A index \in StageIndices(data) :
       (handleDragOverCall(index) /\ draggedIndex \in StageIndices(data)
          /\ draggedIndex # index) =>
         /\ Stages(data') = MoveExpected(Stages(data), draggedIndex, index)
         /\ draggedIndex' = index]_vars
C7_Witness ==
  /\ Stages(data) = <<SeedStage(2), SeedStage(3), SeedStage(1)>>
  /\ draggedIndex = 2
  /\ history = <<SeedRoadmap(3)>>

\* C8: every stage of the Document has an id and no two stages have the same id.
DocStages(d) ==
  IF IsArr(d) THEN d.v ELSE IF IsArr(StagesOf(d)) THEN StagesOf(d).v ELSE <<>>
C8_UniqueIds ==
  \A i \in 1..Len(DocStages(data)) :
    /\ Get(DocStages(data)[i], "id").t # "undefined"
    /\ \A j \in 1..Len(DocStages(data)) :
         i # j => Get(DocStages(data)[i], "id") # Get(DocStages(data)[j], "id")

\* C9: a text that does not parse, or does not parse to an array of objects
\* each with a string title, sets the error and changes neither the Document
\* nor the history.
RejectedText(text) ==
  LET parsed == JSONparse(text) IN
    \/ ~parsed.ok
    \/ ~IsArr(parsed.val)
    \/ \E i \in 1..Len(parsed.val.v) :
         ~(IsObj(parsed.val.v[i]) /\ Get(parsed.val.v[i], "title").t = "string")
C9_InvalidTextRejected ==
  [][\A text \in EditorTexts(data) :
       (handleInputChangeCall(text) /\ RejectedText(text)) =>
         (error' # JNull /\ data' = data /\ history' = history)]_vars
C9_Witness ==
  /\ localValue = Text(<<P("["), P("{"), TStr("title"), P(":"), TNum("1"), P("}"), P("]")>>)
  /\ error = JStr("Invalid stage structure.")
  /\ data = SeedRoadmap(2)
  /\ history = <<>>
  /\ mounted

\* C10: a text that parses and validates replaces the Document only when its
\* value differs from the current stage list, after pushing the Document as it
\* was; a text whose value equals the current stage list changes neither the
\* Document nor the history.
C10_ValidTextReplaces ==
  [][\A text \in EditorTexts(data) :
       (handleInputChangeCall(text) /\ ~RejectedText(text)) =>
         IF JSONparse(text).val = StagesOf(data)
         THEN data' = data /\ history' = history
         ELSE data' # data /\ history' = Append(history, data)]_vars

\* C11: after the input "{ invalid" (error active, Document unchanged) the input
\* "[]" clears the error and leaves a well-formed Document, one that the
\* application renders and whose stage list is the empty list.
InvalidText == <<P("{"), TWord("invalid")>>
EmptyListText == <<P("["), P("]")>>
C11_InvalidThenEmptyList ==
  [][(handleInputChangeCall(EmptyListText) /\ localValue = Text(InvalidText)
        /\ error # JNull) =>
       /\ error' = JNull
       /\ mounted'
       /\ IsObj(data')
       /\ StagesOf(data') = JArr(<<>>)]_vars

\* C12: a response that is a list of k {title, description} pairs replaces the
\* stage list by exactly k stages in the returned order, the i-th with the i-th
\* title and description and color THEME_COLORS[i mod 7], whatever the stages
\* were before; the header title and description are unchanged.
IsPairList(text) ==
  LET parsed == JSONparse(text) IN
    /\ parsed.ok
    /\ IsArr(parsed.val)
    /\ \A j \in 1..Len(parsed.val.v) :
         /\ IsObj(parsed.val.v[j])
         /\ Get(parsed.val.v[j], "title").t = "string"
         /\ Get(parsed.val.v[j], "description").t = "string"
C12_DraftReplacesStages ==
  [][\A i \in 1..Len(aiCall), text \in AiTexts :
       (aiRespond(i, text) /\ mounted /\ IsPairList(text)) =>
         LET pairs == JSONparse(text).val.v IN
           /\ IsArr(StagesOf(data'))
           /\ Len(Stages(data')) = Len(pairs)
           /\ \A j \in 1..Len(pairs) :
                /\ Get(Stages(data')[j], "title") = Get(pairs[j], "title")
                /\ Get(Stages(data')[j], "description") = Get(pairs[j], "description")
                /\ Get(Stages(data')[j], "color") = JStr(THEME_COLORS[((j - 1) % 7) + 1])
           /\ SameHeader(data', data)]_vars
C12_Witness ==
  /\ mounted
  /\ NumStages(data) = 8
  /\ Get(Stages(data)[1], "title") = JStr("A")
  /\ Get(Stages(data)[8], "title") = JStr("H")
  /\ Get(Stages(data)[7], "color") = JStr("#eab308")
  /\ Get(Stages(data)[8], "color") = JStr("#f43f5e")
  /\ SameHeader(data, SeedRoadmap(2))
  /\ history = <<SeedRoadmap(2)>>

\* C13: the snapshot a successful AI draft pushes is the Document as it stands
\* immediately before the replacement, so that one undo right after the
\* response restores that Document, also when the Document was changed while
\* the request was in flight.
C13_DraftSnapshotIsCurrent ==
  [][\A i \in 1..Len(aiCall), text \in AiTexts :
       (aiRespond(i, text) /\ mounted /\ IsPairList(text)) =>
         /\ Len(history') > 0
         /\ history'[Len(history')] = data
         /\ UndoData(data', history') = data]_vars

\* C14: a failed AI draft leaves the Document unchanged: a call with an empty or
\* whitespace-only prompt, a rejected request, a response text that is not
\* valid JSON, and a response whose value is not a list of objects.
IsObjectList(text) ==
  LET parsed == JSONparse(text) IN
    /\ parsed.ok
    /\ IsArr(parsed.val)
    /\ \A j \in 1..Len(parsed.val.v) : IsObj(parsed.val.v[j])
C14_FailedDraftKeepsDocument ==
  [][/\ (generateWithAi /\ Trim(prompt) = "") => data' = data
     /\ \A i \in 1..Len(aiCall) :
          /\ aiReject(i) => data' = data
          /\ \A text \in AiTexts :
               (aiRespond(i, text) /\ ~IsObjectList(text)) => data' = data]_vars

\* C15: at most one AI draft request is in flight at any time, and isAiLoading
\* is true exactly while a request is in flight (from its invocation until its
\* response or rejection has been handled).
C15_OneRequestInFlight ==
  /\ Len(aiCall) <= 1
  /\ isAiLoading <=> (Len(aiCall) = 1)
C15_Witness ==
  /\ isAiLoading
  /\ Len(aiCall) = 1
  /\ prompt = "launch plan"
  /\ aiCall[1] = data

\* C16: the initial Document is the built-in default when the slot is absent,
\* is not parseable, or parses to a value missing a Document field (title,
\* description or a stages list); it is the default title and description with
\* the stored array as stages when the slot holds a bare array; otherwise it
\* is the stored Document.
HasDocumentFields(v) ==
  /\ IsObj(v)
  /\ Get(v, "title").t = "string"
  /\ Get(v, "description").t = "string"
  /\ IsArr(Get(v, "stages"))
InitialDocument(saved) ==
  IF saved = NoSlot \/ ~JSONparse(saved).ok THEN DEFAULT_ROADMAP
  ELSE LET stored == JSONparse(saved).val IN
    IF IsArr(stored)
    THEN Roadmap(DEFAULT_ROADMAP.v[1].val.v, DEFAULT_ROADMAP.v[2].val.v, stored.v)
    ELSE IF HasDocumentFields(stored) THEN stored ELSE DEFAULT_ROADMAP
C16_InitialDocument ==
  /\ [](clock = 0 => data = InitialDocument(slot))
  /\ [][startup => data' = InitialDocument(slot)]_vars

\* C17: the persisted slot changes only in a step of the save action, and the
\* save action overwrites it with the serialization of the current Document;
\* no other handler changes it.
C17_SlotWrittenOnlyBySave ==
  [][/\ slot' # slot => saveToLocalStorage
     /\ saveToLocalStorage => slot' = Stringify(data)]_vars
C17_Witness ==
  /\ slot = Stringify(data)
  /\ slot # Stringify(SeedRoadmap(2))
  /\ NumStages(data) = 3
  /\ saveStatus = "saved"

\* C18: every Document the operations reach survives serialization: the text
\* JSON.stringify gives for it parses, and parses to a Document equal to it.
RoundTrips(d) ==
  /\ JSONparse(Stringify(d)).ok
  /\ JSONparse(Stringify(d)).val = d
C18_RoundTrip == RoundTrips(data)

\* C19: every edit of a stage field is covered by a history snapshot taken
\* when the edit began, so that the Document before the edit can be restored
\* by undo: a stage field edit that changes the Document never happens on an
\* empty history.
C19_EditsAreSnapshotted ==
  [][(updateStage /\ data' # data) => Len(history') > 0]_vars

\* C20: in the serpentine layout of N stages the anchor of stage i, both the
\* marker and the point of the path, is at x = i*W + W/2, at centerline +
\* amplitude (valley) for even i and centerline - amplitude (peak) for odd i,
\* so adjacent stages have opposite orientation, starting with a valley.
AnchorExpected(i) ==
  Point(i * STAGE_WIDTH + STAGE_WIDTH \div 2,
        IF i % 2 = 0 THEN HEIGHT \div 2 + AMPLITUDE ELSE HEIGHT \div 2 - AMPLITUDE)
C20_SerpentineAnchors ==
  /\ Len(timeline.markers) = timeline.n
  /\ \A i \in 0..(timeline.n - 1) :
       /\ timeline.markers[i + 1] = AnchorExpected(i)
       /\ timeline.path.curves[2 * i + 1].end = AnchorExpected(i)
       /\ i > 0 => timeline.markers[i + 1].y # timeline.markers[i].y
C20_Witness ==
  /\ timeline.n = 3
  /\ timeline.markers = <<Point(190, 450), Point(570, 150), Point(950, 450)>>

\* C21: whenever the JSON editor is shown and does not have focus, its text is
\* the serialization of the current Document data (of the Document, or of its
\* stage list) and its error is clear; while it has focus, a change of the
\* Document made by another handler does not alter its text.
EditorHandlers == editorFocus \/ editorBlur \/ handleInputChange \/ setActiveSidebarTab
C21_EditorTextFollowsDocument ==
  /\ []((mounted /\ activeSidebarTab = "json" /\ ~isFocused) =>
          /\ localValue \in {Text(Stringify(data)), Text(Stringify(StagesOf(data)))}
          /\ error = JNull)
  /\ [][(isFocused /\ data' # data /\ ~EditorHandlers) => localValue' = localValue]_vars

\* C22: every issued AI draft request eventually leaves the pending state:
\* given that the external call completes or fails, isAiLoading becomes false
\* again, and no call stays waiting.
C22_RequestEventuallySettles ==
  /\ isAiLoading ~> ~isAiLoading
  /\ (Len(aiCall) > 0) ~> (Len(aiCall) = 0)
C22_Witness ==
  /\ ~isAiLoading
  /\ aiCall = <<>>
  /\ prompt = ""
  /\ NumStages(data) = 1
  /\ Get(Stages(data)[1], "title") = JStr("Plan")
  /\ history = <<SeedRoadmap(2)>>

\* C23 (as stated): the serpentine path starts at (0, centerline) and is a chain
\* of exactly 2N cubic segments, one pair per stage: for stage slot i the first
\* ends at stage i's anchor and the second at the slot's right edge on the
\* centerline.
SlotPairExpected(i) ==
  /\ timeline.path.curves[2 * i + 1].end = AnchorExpected(i)
  /\ timeline.path.curves[2 * i + 2].end = Point((i + 1) * STAGE_WIDTH, HEIGHT \div 2)
C23_Original ==
  timeline.n > 0 =>
    /\ timeline.path.start = <<Point(0, HEIGHT \div 2)>>
    /\ Len(timeline.path.curves) = 2 * timeline.n
    /\ \A i \in 0..(timeline.n - 1) : SlotPairExpected(i)
\* C23 (amended): the path starts at (0, centerline) and has one pair of cubic
\* segments per drawn slot, the first ending at the slot's anchor position and
\* the second at the slot's right edge on the centerline; the drawn slots are
\* those of the N stages in index order, followed in the later version of the
\* layout by one trailing slot without a stage: 2N or 2N + 2 segments.
C23_SerpentineChain ==
  /\ timeline.n = 0 => timeline.path.curves = <<>> /\ timeline.path.start = <<>>
  /\ timeline.n > 0 =>
       /\ timeline.path.start = <<Point(0, HEIGHT \div 2)>>
       /\ Len(timeline.path.curves) \in {2 * timeline.n, 2 * timeline.n + 2}
       /\ \A i \in 0..((Len(timeline.path.curves) \div 2) - 1) : SlotPairExpected(i)
C23_Witness ==
  /\ timeline.n = 2
  /\ Len(timeline.path.curves) = 6
  /\ timeline.path.curves[6].end = Point(1140, 300)
  /\ timeline.path.curves[3].end = Point(570, 150)

\* C24: in the serpentine layout, for every drawn slot i the four control points
\* are 0.3 * W horizontally from the endpoint of their segment they belong to,
\* and the control points next to the slot's left edge and right edge lie on
\* the centerline, so the path is tangent to the centerline at every slot
\* boundary.
C24_ControlPoints ==
  \A i \in 0..((Len(timeline.path.curves) \div 2) - 1) :
    LET up == timeline.path.curves[2 * i + 1]
        down == timeline.path.curves[2 * i + 2]
        third == (3 * STAGE_WIDTH) \div 10
    IN /\ up.cp1.x = i * STAGE_WIDTH + third
       /\ up.cp2.x = up.end.x - third
       /\ down.cp1.x = up.end.x + third
       /\ down.cp2.x = down.end.x - third
       /\ up.cp1.y = HEIGHT \div 2
       /\ down.cp2.y = HEIGHT \div 2

\* Entry point, exit point and the anchors of the rendered path, whichever
\* layout rendered it.
IsRows == "viewBoxHeight" \in DOMAIN timeline
Entry == timeline.path.start[1]
Exit ==
  IF IsRows THEN timeline.path.last[1]
  ELSE timeline.path.curves[Len(timeline.path.curves)].end
Dist2(p, q) == (p.x - q.x) * (p.x - q.x) + (p.y - q.y) * (p.y - q.y)
\* C25 (as stated): for N = 1 the entry point and the exit point of the path are
\* at the same distance from the single anchor, on opposite sides of it.
C25_Original ==
  timeline.n = 1 =>
    /\ Entry.x < timeline.markers[1].x
    /\ timeline.markers[1].x < Exit.x
    /\ Dist2(Entry, timeline.markers[1]) = Dist2(Exit, timeline.markers[1])
\* C25 (amended): for N = 1 the path extends on both sides of the single
\* anchor, entry before it and exit after it at the entry's height.  The two
\* are equally far from the anchor in the earlier serpentine version (190 = W/2
\* each way) and in the first multi-row version (100 each way); in the second
\* multi-row version the path enters 100 before the anchor and runs on 150
\* after it, to the add button; in the later serpentine version it runs on
\* through the trailing slot, 570 past the anchor.
C25_SingleStagePath ==
  timeline.n = 1 =>
    /\ Entry.x < timeline.markers[1].x
    /\ timeline.markers[1].x < Exit.x
    /\ Entry.y = Exit.y
    /\ IsRows =>
         /\ Entry.y = timeline.markers[1].y
         /\ <<timeline.markers[1].x - Entry.x, Exit.x - timeline.markers[1].x>>
              \in {<<100, 100>>, <<100, 150>>}
         /\ timeline.plus \in {<<>>, <<Exit>>}
         /\ timeline.plus = <<>> <=> Exit.x - timeline.markers[1].x = 100
    /\ ~IsRows =>
         /\ Entry.y = HEIGHT \div 2
         /\ <<timeline.markers[1].x - Entry.x, Exit.x - timeline.markers[1].x>>
              \in {<<190, 190>>, <<190, 570>>}
C25_Witness ==
  /\ timeline.n = 1
  /\ IsRows
  /\ timeline.markers = <<Point(325, 390)>>
  /\ timeline.path.start = <<Point(225, 390)>>
  /\ timeline.path.last = <<Point(475, 390)>>

\* C26: in the multi-row layout (3 stages per row) stage i sits in row
\* floor(i / 3): the stages of a row share one y and rows differ in y; x
\* increases with i within an even row and decreases within an odd row; the
\* last stage of a row and the first of the next share their x; the cubic
\* joining two rows has both control points displaced by 0.7 * W from its
\* endpoints' x, in the direction of travel of the row just finished.
RowOf(i) == i \div 3
C26_RowsLayout ==
  /\ \A i, j \in 1..timeline.n :
       (timeline.markers[i].y = timeline.markers[j].y) <=> (RowOf(i - 1) = RowOf(j - 1))
  /\ \A i \in 1..timeline.n :
       timeline.markers[i].y = timeline.markers[1].y + 500 * RowOf(i - 1)
  /\ \A i \in 1..(timeline.n - 1) :
       LET a == timeline.markers[i]
           b == timeline.markers[i + 1]
           c == timeline.path.curves[i]
           displaced == IF RowOf(i - 1) % 2 = 0 THEN 315 ELSE -315
       IN /\ c.end = b
          /\ (RowOf(i - 1) = RowOf(i) /\ RowOf(i) % 2 = 0) => a.x < b.x
          /\ (RowOf(i - 1) = RowOf(i) /\ RowOf(i) % 2 = 1) => a.x > b.x
          /\ RowOf(i - 1) # RowOf(i) =>
               /\ a.x = b.x
               /\ c.cp1 = Point(a.x + displaced, a.y)
               /\ c.cp2 = Point(b.x + displaced, b.y)
C26_Witness ==
  /\ timeline.n = 7
  /\ timeline.viewBoxHeight = 1690
  /\ timeline.path.curves[3] = Curve(Point(1540, 390), Point(1540, 890), Point(1225, 890))
  /\ timeline.path.curves[6] = Curve(Point(10, 890), Point(10, 1390), Point(325, 1390))

\* C27: while a drag is in progress and other list-changing events interleave
\* with it, every drag-over leaves the stage list a permutation of the list
\* before it (no stage lost, duplicated or replaced by an empty entry), and
\* draggedIndex is never outside the list.
Count(s, x) == Cardinality({i \in 1..Len(s) : s[i] = x})
IsPermutation(s, t) ==
  /\ Len(s) = Len(t)
  /\ \A i \in 1..Len(s) : Count(s, s[i]) = Count(t, s[i])
C27_DragKeepsStages ==
  /\ [](draggedIndex = NullIndex \/ draggedIndex < NumStages(data))
  /\ [][handleDragOver => IsPermutation(Stages(data'), Stages(data))]_vars
  /\ [](\A i \in 1..Len(Stages(data)) : Stages(data)[i] # JUndefined)

\* C28: a drag gesture is one undoable step: handleDragStart pushes exactly one
\* snapshot, of the Document as it is, and changes nothing but draggedIndex and
\* the history; the drag-overs and handleDragEnd push none; handleDragEnd resets
\* draggedIndex to null and changes nothing else; one undo after the gesture
\* restores the order the list had when the drag started.
DragRest == <<isAiLoading, prompt, activeSidebarTab, aiCall, editorVars>>
C28_DragIsOneStep ==
  /\ [][handleDragStart =>
          /\ history' = PushToHistory(history, data)
          /\ history'[Len(history')] = data
          /\ Len(history) < MAX_HISTORY => Len(history') = Len(history) + 1
          /\ data' = data
          /\ UndoData(data', history') = data
          /\ draggedIndex' \in StageIndices(data)
          /\ UNCHANGED <<DragRest, mounted>>]_vars
  /\ [][handleDragOver => history' = history /\ UNCHANGED DragRest]_vars
  /\ [][handleDragEnd =>
          /\ draggedIndex' = NullIndex
          /\ UNCHANGED <<data, history, DragRest, mounted>>]_vars
  /\ [][((handleDragOver \/ handleDragEnd) /\ draggedIndex # NullIndex /\ history # <<>>) =>
          UndoData(data', history') = UndoData(data, history)]_vars
C28_Witness ==
  /\ draggedIndex = NullIndex
  /\ Len(history) = 1
  /\ clock = 3
  /\ history[1] = SeedRoadmap(3)
  /\ IsPermutation(Stages(data), Stages(SeedRoadmap(3)))
  /\ Stages(data) # Stages(SeedRoadmap(3))
  /\ UndoData(data, history) = SeedRoadmap(3)

\* C29: a failed AI draft leaves the undo history unchanged, on every failure
\* path: a call with an empty or whitespace-only prompt, a rejected request
\* (transport error), a response text that is not valid JSON, and a response
\* whose parsed value is not a list of objects.
C29_FailedDraftKeepsHistory ==
  [][/\ (generateWithAi /\ Trim(prompt) = "") => history' = history
     /\ \A i \in 1..Len(aiCall) :
          /\ aiReject(i) => history' = history
          /\ \A text \in AiTexts :
               (aiRespond(i, text) /\ ~IsObjectList(text)) => history' = history]_vars

\* C30: in the multi-row layout of the application (W = 450, 3 stages per row,
\* padding 100, row height 500), for every N >= 1 every anchor, the entry and
\* exit points of the path, the add button and every Bezier control point
\* (those of the U-turns are displaced by 315) lie inside the view box:
\* 0 <= x <= 1550 and 0 <= y <= numRows * 500 + 190; and no two stages share
\* an anchor.
InViewBox(p, n) ==
  /\ 0 <= p.x /\ p.x <= 1550
  /\ 0 <= p.y /\ p.y <= ((n + 2) \div 3) * 500 + 190
C30_InsideViewBox ==
  timeline.n >= 1 =>
    /\ timeline.viewBoxWidth = 1550
    /\ timeline.viewBoxHeight \in {((timeline.n + 2) \div 3) * 500 + 190,
                                   ((timeline.n + 2) \div 3) * 500 + 250}
    /\ \A i \in 1..timeline.n : InViewBox(timeline.markers[i], timeline.n)
    /\ \A i, j \in 1..timeline.n : i # j => timeline.markers[i] # timeline.markers[j]
    /\ InViewBox(timeline.path.start[1], timeline.n)
    /\ InViewBox(timeline.path.first[1], timeline.n)
    /\ InViewBox(timeline.path.last[1], timeline.n)
    /\ \A i \in 1..Len(timeline.plus) : InViewBox(timeline.plus[i], timeline.n)
    /\ \A k \in 1..Len(timeline.path.curves) :
         /\ InViewBox(timeline.path.curves[k].cp1, timeline.n)
         /\ InViewBox(timeline.path.curves[k].cp2, timeline.n)
         /\ InViewBox(timeline.path.curves[k].end, timeline.n)
C30_Witness ==
  /\ timeline.n = 10
  /\ timeline.viewBoxHeight = 2190
  /\ timeline.plus = <<Point(1075, 1890)>>
  /\ timeline.path.curves[3].cp1 = Point(1540, 390)
  /\ timeline.path.curves[6].cp1 = Point(10, 890)
====
